---------------------------- MODULE Spec2Model ----------------------------
(***************************************************************************)
(* Hydrogen: a TCP key-value cache.  The model covers the Store            *)
(* (src/src/cache.rs), the command parser and the per-connection request   *)
(* loop (src/src/api.rs).                                                  *)
(*                                                                         *)
(* A string is a sequence of one-character strings; the element            *)
(* InvalidByte stands for a byte that is not valid UTF-8.                  *)
(*                                                                         *)
(* A connection task is at one of: Idle (not accepted yet), Reading        *)
(* (awaiting read_line), Waiting (dispatching: awaiting the RwLock),       *)
(* Holding (dispatching: inside the Store operation, lock held),           *)
(* Responding (awaiting write_all) and Closed.  An action is what the task *)
(* does between two awaits.                                                *)
(*                                                                         *)
(* Spec:       two connections whose clients send any of RequestLines,     *)
(*             one request at a time, in every interleaving.               *)
(* SpecScript: one connection served a script of lines fixed in the        *)
(*             initial state; the scripts enumerate the parser's inputs.   *)
(* SpecFair:   Spec with the tasks scheduled fairly.                       *)
(* SpecFault:  Spec with the compressor failing at the environment's       *)
(*             choice.                                                     *)
(***************************************************************************)
EXTENDS Integers, Sequences, FiniteSets, TLC

(***************************************************************************)
(* Characters                                                              *)
(***************************************************************************)
LowerSeq ==
    << "a", "b", "c", "d", "e", "f", "g", "h", "i", "j", "k", "l", "m",
       "n", "o", "p", "q", "r", "s", "t", "u", "v", "w", "x", "y", "z" >>

UpperSeq ==
    << "A", "B", "C", "D", "E", "F", "G", "H", "I", "J", "K", "L", "M",
       "N", "O", "P", "Q", "R", "S", "T", "U", "V", "W", "X", "Y", "Z" >>

DigitSeq == << "0", "1", "2", "3", "4", "5", "6", "7", "8", "9" >>

\* The other printable ASCII characters the model's lines use, with their codes.
PunctSeq == << " ", "!", "\"", "(", ")", "-", ":", "_" >>

PunctCode == << 32, 33, 34, 40, 41, 45, 58, 95 >>

InvalidByte == "<FF>"

Range(s) == { s[i] : i \in 1..Len(s) }

IndexOf(s, x) == CHOOSE i \in 1..Len(s) : s[i] = x

\* char::is_ascii_alphanumeric
is_ascii_alphanumeric(ch) ==
    ch \in Range(LowerSeq) \cup Range(UpperSeq) \cup Range(DigitSeq)

\* char::is_whitespace, on the characters of the model
is_whitespace(ch) == ch \in { " ", "\t", "\r", "\n" }

\* char::to_uppercase
to_uppercase_char(ch) ==
    IF ch \in Range(LowerSeq) THEN UpperSeq[IndexOf(LowerSeq, ch)] ELSE ch

(***************************************************************************)
(* str operations used by the parser                                       *)
(***************************************************************************)
to_uppercase(s) == [ i \in 1..Len(s) |-> to_uppercase_char(s[i]) ]

RECURSIVE trim_start(_)
trim_start(s) ==
    IF s # << >> /\ is_whitespace(Head(s)) THEN trim_start(Tail(s)) ELSE s

RECURSIVE trim_end(_)
trim_end(s) ==
    IF s # << >> /\ is_whitespace(s[Len(s)])
    THEN trim_end(SubSeq(s, 1, Len(s) - 1))
    ELSE s

trim(s) == trim_end(trim_start(s))

\* str::find(ch): the first position of ch (1-based), 0 for None
find(s, ch) ==
    IF \E i \in 1..Len(s) : s[i] = ch
    THEN CHOOSE i \in 1..Len(s) : s[i] = ch /\ \A j \in 1..(i - 1) : s[j] # ch
    ELSE 0

contains(s, ch) == \E i \in 1..Len(s) : s[i] = ch

starts_with(s, ch) == s # << >> /\ s[1] = ch

ends_with(s, ch) == s # << >> /\ s[Len(s)] = ch

\* str::split_whitespace: the maximal runs of non-whitespace, in order
RECURSIVE split_whitespace(_)
split_whitespace(s) ==
    LET t == trim_start(s)
        stop == IF \E i \in 1..Len(t) : is_whitespace(t[i])
                THEN CHOOSE i \in 1..Len(t) :
                         /\ is_whitespace(t[i])
                         /\ \A j \in 1..(i - 1) : ~is_whitespace(t[j])
                ELSE Len(t) + 1
    IN  IF t = << >>
        THEN << >>
        ELSE << SubSeq(t, 1, stop - 1) >>
                 \o split_whitespace(SubSeq(t, stop, Len(t)))

\* [&str]::join(sep)
RECURSIVE join(_, _)
join(parts, sep) ==
    IF parts = << >> THEN << >>
    ELSE IF Len(parts) = 1 THEN parts[1]
    ELSE parts[1] \o sep \o join(Tail(parts), sep)

(***************************************************************************)
(* Command parser (api.rs)                                                 *)
(***************************************************************************)
S_SET == << "S", "E", "T" >>
S_GET == << "G", "E", "T" >>
S_DEL == << "D", "E", "L" >>
S_DELETE == << "D", "E", "L", "E", "T", "E" >>
S_KEYS == << "K", "E", "Y", "S" >>

Ok(kind, key, value) ==
    [ ok |-> TRUE, kind |-> kind, key |-> key, value |-> value,
      err |-> "", ch |-> "" ]

\* ApiError::InvalidCommand(msg); ch is the character the message names
InvalidCommand(msg, ch) ==
    [ ok |-> FALSE, kind |-> "None", key |-> << >>, value |-> << >>,
      err |-> msg, ch |-> ch ]

IsSep(ch) == ch = "-" \/ ch = "_"

\* validate_key without its second loop: only the characters and the
\* consecutive separators are checked
validate_key_no_placement(key) ==
    LET n == Len(key)
        bad == { i \in 1..n : ~is_ascii_alphanumeric(key[i]) /\ ~IsSep(key[i]) }
        consecutive == { i \in 1..(n - 1) : IsSep(key[i]) /\ IsSep(key[i + 1]) }
    IN  IF key = << >> THEN InvalidCommand("Key cannot be empty", "")
        ELSE IF contains(key, " ")
        THEN InvalidCommand("Key cannot contain spaces", "")
        ELSE IF bad # {}
        THEN InvalidCommand("Key contains invalid character", "")
        ELSE IF consecutive # {}
        THEN InvalidCommand("Key cannot have consecutive hyphens or underscores", "")
        ELSE Ok("None", key, << >>)

\* validate_key asking for a letter in front
validate_key_letter_first(key) ==
    LET n == Len(key)
        bad == { i \in 1..n : ~is_ascii_alphanumeric(key[i]) /\ ~IsSep(key[i]) }
        misplaced == { i \in 1..n :
                         /\ IsSep(key[i])
                         /\ \/ i = 1
                            \/ i = n
                            \/ ~is_ascii_alphanumeric(key[i - 1])
                            \/ ~is_ascii_alphanumeric(key[i + 1]) }
    IN  IF key = << >> THEN InvalidCommand("Key cannot be empty", "")
        ELSE IF contains(key, " ")
        THEN InvalidCommand("Key cannot contain spaces", "")
        ELSE IF bad # {}
        THEN InvalidCommand("Key contains invalid character", "")
        ELSE IF key[1] \in Range(DigitSeq)
        THEN InvalidCommand("Key contains invalid character", key[1])
        ELSE IF misplaced # {}
        THEN InvalidCommand("Invalid key format", "")
        ELSE Ok("None", key, << >>)

\* Command::validate_key: Ok(()) is the record with ok = TRUE
validate_key(key) ==
    LET n == Len(key)
        bad == { i \in 1..n : ~is_ascii_alphanumeric(key[i]) /\ ~IsSep(key[i]) }
        firstBad == CHOOSE i \in bad : \A j \in bad : i <= j
        \* second loop: the separators that sit at an edge or beside a
        \* character that is not alphanumeric
        misplaced == { i \in 1..n :
                         /\ IsSep(key[i])
                         /\ \/ i = 1
                            \/ i = n
                            \/ ~is_ascii_alphanumeric(key[i - 1])
                            \/ ~is_ascii_alphanumeric(key[i + 1]) }
        firstMis == CHOOSE i \in misplaced : \A j \in misplaced : i <= j
        consecutive == { i \in 1..(n - 1) : IsSep(key[i]) /\ IsSep(key[i + 1]) }
    IN  IF key = << >> THEN InvalidCommand("Key cannot be empty", "")
        ELSE IF contains(key, " ")
        THEN InvalidCommand("Key cannot contain spaces", "")
        ELSE IF bad # {}
        THEN InvalidCommand("Key contains invalid character", key[firstBad])
        ELSE IF misplaced # {}
        THEN IF firstMis = 1 \/ firstMis = n
             THEN InvalidCommand("Key cannot start or end with", key[firstMis])
             ELSE InvalidCommand("Invalid key format", key[firstMis])
        ELSE IF consecutive # {}
        THEN InvalidCommand("Key cannot have consecutive hyphens or underscores", "")
        ELSE Ok("None", key, << >>)

\* parse_set_args without the quoted branch: every value is collapsed
parse_set_args_collapse(args) ==
    LET pos == find(args, " ")
        key == SubSeq(args, 1, pos - 1)
        rest == trim(SubSeq(args, pos + 1, Len(args)))
    IN  IF args = << >> \/ pos = 0 \/ rest = << >>
        THEN InvalidCommand("SET command requires key and value", "")
        ELSE Ok("Set", key, join(split_whitespace(rest), << " " >>))

\* parse_set_args taking an unquoted remainder as it stands
parse_set_args_verbatim(args) ==
    LET pos == find(args, " ")
        key == SubSeq(args, 1, pos - 1)
        rest == trim(SubSeq(args, pos + 1, Len(args)))
        value == IF starts_with(rest, "\"") /\ ends_with(rest, "\"") /\ Len(rest) >= 2
                 THEN SubSeq(rest, 2, Len(rest) - 1)
                 ELSE rest
    IN  IF args = << >> \/ pos = 0 \/ rest = << >>
        THEN InvalidCommand("SET command requires key and value", "")
        ELSE Ok("Set", key, value)

\* Command::parse_set_args: Ok((key, value)) or the error
parse_set_args(args) ==
    LET pos == find(args, " ")
        key == SubSeq(args, 1, pos - 1)
        rest == trim(SubSeq(args, pos + 1, Len(args)))
        value == IF starts_with(rest, "\"") /\ ends_with(rest, "\"") /\ Len(rest) >= 2
                 THEN SubSeq(rest, 2, Len(rest) - 1)
                 ELSE join(split_whitespace(rest), << " " >>)
    IN  IF args = << >>
        THEN InvalidCommand("SET command requires key and value", "")
        ELSE IF pos = 0
        THEN InvalidCommand("SET command requires key and value", "")
        ELSE IF rest = << >>
        THEN InvalidCommand("SET command requires key and value", "")
        ELSE Ok("Set", key, value)

\* parse that stores whatever key a SET names
parse_set_unvalidated(line) ==
    LET input == trim(line)
        pos == find(input, " ")
        command == IF pos > 0 THEN SubSeq(input, 1, pos - 1) ELSE input
        rest == IF pos > 0 THEN trim(SubSeq(input, pos + 1, Len(input))) ELSE << >>
        up == to_uppercase(command)
        setArgs == parse_set_args(rest)
    IN  IF input = << >> THEN InvalidCommand("Empty command", "")
        ELSE IF up = S_SET
        THEN setArgs
        ELSE IF up = S_GET
        THEN IF rest = << >>
             THEN InvalidCommand("GET command requires exactly one key", "")
             ELSE IF ~validate_key(rest).ok THEN validate_key(rest)
             ELSE Ok("Get", rest, << >>)
        ELSE IF up = S_DEL \/ up = S_DELETE
        THEN IF rest = << >>
             THEN InvalidCommand("DEL command requires exactly one key", "")
             ELSE IF ~validate_key(rest).ok THEN validate_key(rest)
             ELSE Ok("Delete", rest, << >>)
        ELSE IF up = S_KEYS
        THEN IF rest # << >>
             THEN InvalidCommand("KEYS command takes no arguments", "")
             ELSE Ok("Keys", << >>, << >>)
        ELSE InvalidCommand("Unknown command", "")

\* Command::parse
parse(line) ==
    LET input == trim(line)
        pos == find(input, " ")
        command == IF pos > 0 THEN SubSeq(input, 1, pos - 1) ELSE input
        rest == IF pos > 0 THEN trim(SubSeq(input, pos + 1, Len(input))) ELSE << >>
        up == to_uppercase(command)
        setArgs == parse_set_args(rest)
    IN  IF input = << >> THEN InvalidCommand("Empty command", "")
        ELSE IF up = S_SET
        THEN IF ~setArgs.ok THEN setArgs
             ELSE IF ~validate_key(setArgs.key).ok THEN validate_key(setArgs.key)
             ELSE setArgs
        ELSE IF up = S_GET
        THEN IF rest = << >>
             THEN InvalidCommand("GET command requires exactly one key", "")
             ELSE IF ~validate_key(rest).ok THEN validate_key(rest)
             ELSE Ok("Get", rest, << >>)
        ELSE IF up = S_DEL \/ up = S_DELETE
        THEN IF rest = << >>
             THEN InvalidCommand("DEL command requires exactly one key", "")
             ELSE IF ~validate_key(rest).ok THEN validate_key(rest)
             ELSE Ok("Delete", rest, << >>)
        ELSE IF up = S_KEYS
        THEN IF rest # << >>
             THEN InvalidCommand("KEYS command takes no arguments", "")
             ELSE Ok("Keys", << >>, << >>)
        ELSE InvalidCommand("Unknown command", "")


(***************************************************************************)
(* CacheEntry (cache.rs): the value is held as a compressed byte payload   *)
(***************************************************************************)
\* str::as_bytes on the characters of the model (ASCII codes)
byte_of(ch) ==
    IF ch \in Range(LowerSeq) THEN 96 + IndexOf(LowerSeq, ch)
    ELSE IF ch \in Range(UpperSeq) THEN 64 + IndexOf(UpperSeq, ch)
    ELSE IF ch \in Range(DigitSeq) THEN 47 + IndexOf(DigitSeq, ch)
    ELSE IF ch \in Range(PunctSeq) THEN PunctCode[IndexOf(PunctSeq, ch)]
    ELSE IF ch = "\t" THEN 9
    ELSE IF ch = "\n" THEN 10
    ELSE IF ch = "\r" THEN 13
    ELSE 255

char_of(b) ==
    IF b >= 97 /\ b <= 122 THEN LowerSeq[b - 96]
    ELSE IF b >= 65 /\ b <= 90 THEN UpperSeq[b - 64]
    ELSE IF b >= 48 /\ b <= 57 THEN DigitSeq[b - 47]
    ELSE IF b \in Range(PunctCode) THEN PunctSeq[IndexOf(PunctCode, b)]
    ELSE IF b = 9 THEN "\t"
    ELSE IF b = 10 THEN "\n"
    ELSE IF b = 13 THEN "\r"
    ELSE InvalidByte

as_bytes(s) == [ i \in 1..Len(s) |-> byte_of(s[i]) ]

\* The frame header zstd puts before the payload (magic number, little endian)
ZstdMagic == << 40, 181, 47, 253 >>

\* zstd::encode_all: a lossless frame around the bytes
encode_all(bytes) == ZstdMagic \o bytes

\* zstd::decode_all: the bytes of a well-formed frame, or an error
decode_all(data) ==
    IF Len(data) >= Len(ZstdMagic) /\ SubSeq(data, 1, Len(ZstdMagic)) = ZstdMagic
    THEN [ ok |-> TRUE, bytes |-> SubSeq(data, Len(ZstdMagic) + 1, Len(data)) ]
    ELSE [ ok |-> FALSE, bytes |-> << >> ]

\* CacheEntry::new losing the last byte of the value
CacheEntry_new_truncated(value) ==
    [ compressed_data |->
          encode_all(SubSeq(as_bytes(value), 1, Len(value) - 1)) ]

\* CacheEntry::new
CacheEntry_new(value) == [ compressed_data |-> encode_all(as_bytes(value)) ]

\* CacheEntry::get_value: Ok(String) or CacheError::DecompressionError
get_value(entry) ==
    LET d == decode_all(entry.compressed_data)
        text == [ i \in 1..Len(d.bytes) |-> char_of(d.bytes[i]) ]
    IN  IF ~d.ok THEN [ ok |-> FALSE, value |-> << >> ]
        ELSE IF \E i \in 1..Len(text) : text[i] = InvalidByte
        THEN [ ok |-> FALSE, value |-> << >> ]
        ELSE [ ok |-> TRUE, value |-> text ]

(***************************************************************************)
(* Responses (api.rs, execute_command and handle_client)                   *)
(***************************************************************************)
R_OK == << "O", "K" >>
R_NULL == << "N", "U", "L", "L" >>
R_1 == << "1" >>
R_0 == << "0" >>
R_EMPTY == << "(", "e", "m", "p", "t", "y", ")" >>
R_ERROR == << "E", "R", "R", "O", "R", ":", " " >>

R_INVALID ==
    R_ERROR \o << "I", "n", "v", "a", "l", "i", "d", " ",
                  "e", "n", "d", "p", "o", "i", "n", "t", " ",
                  "f", "o", "r", "m", "a", "t" >>

\* format!("ERROR: {}", e) for CacheError::DecompressionError
R_DECOMPRESSION == R_ERROR \o << "Decompression failed" >>

NoCmd == [ kind |-> "None", key |-> << >>, value |-> << >> ]

CmdOf(p) == [ kind |-> p.kind, key |-> p.key, value |-> p.value ]

NoConn == "none"

\* End of stream, as the last thing a client puts on its socket
EOF == << "<EOF>" >>

\* The transport failing (the peer resets the connection), in stream order
ERR == << "<ERR>" >>

Conns == { "c1", "c2" }


(***************************************************************************)
(* The request lines the clients of Spec send                              *)
(***************************************************************************)
SP == << " " >>

L_SET_a_1 == S_SET \o SP \o << "a" >> \o SP \o << "1" >>
L_SET_a_2 == << "s", "e", "t" >> \o SP \o << "a" >> \o SP \o << "2" >>
L_SET_b_1 == S_SET \o SP \o << "b" >> \o SP \o << "1" >>
L_GET_a == S_GET \o SP \o << "a" >>
L_DEL_a == S_DEL \o SP \o << "a" >>
L_KEYS == S_KEYS
L_FOO_bar == << "F", "O", "O", " ", "b", "a", "r" >>
L_GET_bad == S_GET \o SP \o << "-", "a" >>
L_BLANK == << " ", "\t" >>
L_NOT_UTF8 == S_GET \o SP \o << InvalidByte >>

RequestLines ==
    { L_SET_a_1, L_SET_a_2, L_SET_b_1, L_GET_a, L_DEL_a, L_KEYS,
      L_FOO_bar, L_GET_bad, L_BLANK, L_NOT_UTF8 }

(***************************************************************************)
(* State                                                                   *)
(***************************************************************************)
VARIABLES
    storage,    \* Hydrogen.storage: key -> CacheEntry
    writer,     \* the connection holding the RwLock exclusively, or NoConn
    readers,    \* the connections holding the RwLock shared
    waiters,    \* the connections waiting for the RwLock, first come first
    pc,         \* per connection: Idle, Reading, Waiting, Holding, Responding, Closed
    line,       \* per connection: the line read_line returned
    cmd,        \* per connection: the parsed Command
    response,   \* per connection: the response being written
    inbox,      \* per connection: request lines sent and not yet read
    outbox,     \* per connection: response lines written and not yet received
    wlog,       \* history: key -> value of the last SET granted exclusive access
    ones,       \* history: key -> DEL replies "1" since the key was last inserted
    supplied,   \* history: the <<key, value>> of every SET command parsed
    logged,     \* history, per connection: the log events of the current request
    probe       \* the input a scripted specification drew in its initial state

vars ==
    << storage, writer, readers, waiters, pc, line, cmd, response,
       inbox, outbox, wlog, ones, supplied, logged, probe >>

lockVars == << writer, readers, waiters >>

histVars == << wlog, ones, supplied >>

NoProbe ==
    [ kind |-> "none", word |-> << >>, key |-> << >>, value |-> << >>,
      quoted |-> FALSE, script |-> << >> ]

\* The state after Hydrogen::new, TcpApiServer::new and before any accept
InitServer ==
    /\ storage = << >>
    /\ writer = NoConn
    /\ readers = {}
    /\ waiters = << >>
    /\ pc = [ c \in Conns |-> "Idle" ]
    /\ line = [ c \in Conns |-> << >> ]
    /\ cmd = [ c \in Conns |-> NoCmd ]
    /\ response = [ c \in Conns |-> << >> ]
    /\ outbox = [ c \in Conns |-> << >> ]
    /\ wlog = << >>
    /\ ones = << >>
    /\ supplied = {}
    /\ logged = [ c \in Conns |-> << >> ]

Init ==
    /\ InitServer
    /\ inbox = [ c \in Conns |-> << >> ]
    /\ probe = NoProbe

\* HashMap::insert
insert(map, key, entry) ==
    [ k \in DOMAIN map \cup { key } |-> IF k = key THEN entry ELSE map[k] ]

\* HashMap::remove
remove(map, key) == [ k \in DOMAIN map \ { key } |-> map[k] ]

IsWrite(command) == command.kind \in { "Set", "Delete" }

is_valid_utf8(l) == \A i \in 1..Len(l) : l[i] # InvalidByte

(***************************************************************************)
(* Clients                                                                 *)
(***************************************************************************)
\* the requests of a client that are on their way, being served or answered
\* and not yet received
InFlight(c) ==
    Len(inbox[c]) + Len(outbox[c])
        + (IF pc[c] \in { "Waiting", "Holding", "Responding" } THEN 1 ELSE 0)

\* the client writes one request line once it has the reply to the one before
\* (hydrogen_cli, execute_command: one command, then one reply)
ClientSend(c) ==
    /\ pc[c] \notin { "Idle", "Closed" }
    /\ InFlight(c) = 0
    /\ EOF \notin Range(inbox[c])
    /\ \E l \in RequestLines : inbox' = [ inbox EXCEPT ![c] = Append(@, l) ]
    /\ UNCHANGED << storage, lockVars, pc, line, cmd, response, outbox,
                    histVars, logged, probe >>

ClientRecv(c) ==
    /\ outbox[c] # << >>
    /\ outbox' = [ outbox EXCEPT ![c] = Tail(@) ]
    /\ UNCHANGED << storage, lockVars, pc, line, cmd, response, inbox,
                    histVars, logged, probe >>

ClientClose(c) ==
    /\ pc[c] \notin { "Idle", "Closed" }
    /\ inbox[c] = << >>
    /\ inbox' = [ inbox EXCEPT ![c] = Append(@, EOF) ]
    /\ UNCHANGED << storage, lockVars, pc, line, cmd, response, outbox,
                    histVars, logged, probe >>

\* the transport fails under the connection
ClientReset(c) ==
    /\ pc[c] \notin { "Idle", "Closed" }
    /\ inbox[c] = << >>
    /\ inbox' = [ inbox EXCEPT ![c] = Append(@, ERR) ]
    /\ UNCHANGED << storage, lockVars, pc, line, cmd, response, outbox,
                    histVars, logged, probe >>

(***************************************************************************)
(* TcpApiServer::run and handle_client                                     *)
(***************************************************************************)
\* run: accept a connection and spawn its handle_client task
Accept(c) ==
    /\ pc[c] = "Idle"
    /\ pc' = [ pc EXCEPT ![c] = "Reading" ]
    /\ UNCHANGED << storage, lockVars, line, cmd, response, inbox, outbox,
                    histVars, logged, probe >>

\* the error taken out of the task and ending the process: every connection
\* goes down with it
Close_process(c) ==
    /\ pc' = [ d \in Conns |-> "Closed" ]
    /\ line' = [ d \in Conns |-> << >> ]
    /\ cmd' = [ d \in Conns |-> NoCmd ]
    /\ response' = [ d \in Conns |-> << >> ]
    /\ inbox' = [ d \in Conns |-> << >> ]
    /\ logged' = [ d \in Conns |-> << >> ]

\* the task ends: the socket is dropped with what was unread on it
Close(c) ==
    /\ pc' = [ pc EXCEPT ![c] = "Closed" ]
    /\ line' = [ line EXCEPT ![c] = << >> ]
    /\ cmd' = [ cmd EXCEPT ![c] = NoCmd ]
    /\ response' = [ response EXCEPT ![c] = << >> ]
    /\ inbox' = [ inbox EXCEPT ![c] = << >> ]
    /\ logged' = [ logged EXCEPT ![c] = << >> ]

\* read_line returns Ok(0)
ReadEof(c) ==
    /\ pc[c] = "Reading"
    /\ inbox[c] # << >>
    /\ Head(inbox[c]) = EOF
    /\ Close(c)
    /\ UNCHANGED << storage, lockVars, outbox, histVars, probe >>

\* read_line returns Err: bytes that are not UTF-8
ReadInvalidUtf8(c) ==
    /\ pc[c] = "Reading"
    /\ inbox[c] # << >>
    /\ Head(inbox[c]) \notin { EOF, ERR }
    /\ ~is_valid_utf8(Head(inbox[c]))
    /\ Close(c)
    /\ UNCHANGED << storage, lockVars, outbox, histVars, probe >>

\* read_line returns Err: the transport failed
ReadError(c) ==
    /\ pc[c] = "Reading"
    /\ inbox[c] # << >>
    /\ Head(inbox[c]) = ERR
    /\ Close(c)
    /\ UNCHANGED << storage, lockVars, outbox, histVars, probe >>

Readable(c) ==
    /\ pc[c] = "Reading"
    /\ inbox[c] # << >>
    /\ Head(inbox[c]) \notin { EOF, ERR }
    /\ is_valid_utf8(Head(inbox[c]))

\* a blank line handed to the parser, whose "Empty command" error is answered
ReadBlank_replies(c) ==
    /\ Readable(c)
    /\ trim(Head(inbox[c])) = << >>
    /\ inbox' = [ inbox EXCEPT ![c] = Tail(@) ]
    /\ line' = [ line EXCEPT ![c] = Head(inbox[c]) ]
    /\ response' = [ response EXCEPT ![c] = R_INVALID ]
    /\ pc' = [ pc EXCEPT ![c] = "Responding" ]
    /\ UNCHANGED << storage, lockVars, cmd, outbox, histVars, logged, probe >>

\* read_line returns a line that trims to nothing: continue
ReadBlank(c) ==
    /\ Readable(c)
    /\ trim(Head(inbox[c])) = << >>
    /\ inbox' = [ inbox EXCEPT ![c] = Tail(@) ]
    /\ UNCHANGED << storage, lockVars, pc, line, cmd, response, outbox,
                    histVars, logged, probe >>

(***************************************************************************)
(* Log events (api_log.rs): the text of each info! with its arguments      *)
(***************************************************************************)
log_set_endpoint(key, value) == [ event |-> "SET", key |-> key, value |-> value ]

log_get_endpoint(key) == [ event |-> "GET", key |-> key, value |-> << >> ]

log_delete_endpoint(key) == [ event |-> "DEL", key |-> key, value |-> << >> ]

\* called at api.rs:232 and not defined in api_log.rs: one event without
\* arguments, as the logging contract of the specification names it
log_keys_endpoint == [ event |-> "KEYS", key |-> << >>, value |-> << >> ]

log_invalid_endpoint(command) ==
    [ event |-> "Invalid endpoint", key |-> << >>, value |-> command ]

\* the match on the parsed command logging a SET without its value
log_command_without_value(p) ==
    IF p.kind = "Set" THEN << log_set_endpoint(p.key, << >>) >>
    ELSE IF p.kind = "Get" THEN << log_get_endpoint(p.key) >>
    ELSE IF p.kind = "Delete" THEN << log_delete_endpoint(p.key) >>
    ELSE << log_keys_endpoint >>

\* handle_client, the match on the parsed command before execute_command:
\* the events it emits
log_command(p) ==
    IF p.kind = "Set" THEN << log_set_endpoint(p.key, p.value) >>
    ELSE IF p.kind = "Get" THEN << log_get_endpoint(p.key) >>
    ELSE IF p.kind = "Delete" THEN << log_delete_endpoint(p.key) >>
    ELSE << log_keys_endpoint >>

\* the parser's message in the response, as for a Store error
invalid_endpoint_message(l) == R_ERROR \o << parse(trim(l)).err >>

\* the response to a line Command::parse rejects
invalid_endpoint(l) == R_INVALID

\* read_line returns a line Command::parse rejects
ReadInvalid(c) ==
    /\ Readable(c)
    /\ trim(Head(inbox[c])) # << >>
    /\ ~parse(trim(Head(inbox[c]))).ok
    /\ inbox' = [ inbox EXCEPT ![c] = Tail(@) ]
    /\ line' = [ line EXCEPT ![c] = Head(inbox[c]) ]
    /\ cmd' = [ cmd EXCEPT ![c] = NoCmd ]
    /\ response' = [ response EXCEPT ![c] = invalid_endpoint(Head(inbox[c])) ]
    /\ pc' = [ pc EXCEPT ![c] = "Responding" ]
    /\ logged' = [ logged EXCEPT ![c] = << log_invalid_endpoint(trim(Head(inbox[c]))) >> ]
    /\ UNCHANGED << storage, lockVars, outbox, histVars, probe >>

\* what a parsed command supplies to the Store
supplies(p) == IF p.kind = "Set" THEN { << p.key, p.value >> } ELSE {}

\* read_line returns a line Command::parse accepts: execute_command starts
\* and asks for the lock
ReadCommand(c) ==
    /\ Readable(c)
    /\ trim(Head(inbox[c])) # << >>
    /\ parse(trim(Head(inbox[c]))).ok
    /\ inbox' = [ inbox EXCEPT ![c] = Tail(@) ]
    /\ line' = [ line EXCEPT ![c] = Head(inbox[c]) ]
    /\ cmd' = [ cmd EXCEPT ![c] = CmdOf(parse(trim(Head(inbox[c])))) ]
    /\ waiters' = Append(waiters, c)
    /\ pc' = [ pc EXCEPT ![c] = "Waiting" ]
    /\ supplied' = supplied \cup supplies(parse(trim(Head(inbox[c]))))
    /\ logged' = [ logged EXCEPT ![c] = log_command(parse(trim(Head(inbox[c])))) ]
    /\ UNCHANGED << storage, writer, readers, response, outbox, wlog, ones, probe >>

(***************************************************************************)
(* tokio::sync::RwLock as Hydrogen uses it: storage.write().await and      *)
(* storage.read().await.  Waiters are served first come first.             *)
(***************************************************************************)
\* a lock that turns away a writer only while another writer holds it
can_acquire_among_readers(c) == writer = NoConn

\* whether the lock can be handed to the connection at the head of the queue
can_acquire(c) ==
    IF IsWrite(cmd[c])
    THEN writer = NoConn /\ readers = {}
    ELSE writer = NoConn

Holds(c) == writer = c \/ c \in readers

\* a guard that outlives the Store operation
release_never(c) == UNCHANGED lockVars

\* the guard is dropped when the Store operation returns
release(c) ==
    /\ writer' = IF writer = c THEN NoConn ELSE writer
    /\ readers' = readers \ { c }
    /\ UNCHANGED waiters

\* the history of exclusive accesses: what the map holds once this writer is done
granted(c) ==
    IF cmd[c].kind = "Set" THEN insert(wlog, cmd[c].key, cmd[c].value)
    ELSE IF cmd[c].kind = "Delete" THEN remove(wlog, cmd[c].key)
    ELSE wlog

\* .write().await / .read().await completes
Grant(c) ==
    /\ pc[c] = "Waiting"
    /\ waiters # << >>
    /\ Head(waiters) = c
    /\ can_acquire(c)
    /\ waiters' = Tail(waiters)
    /\ writer' = IF IsWrite(cmd[c]) THEN c ELSE writer
    /\ readers' = IF IsWrite(cmd[c]) THEN readers ELSE readers \cup { c }
    /\ wlog' = granted(c)
    /\ pc' = [ pc EXCEPT ![c] = "Holding" ]
    /\ UNCHANGED << storage, line, cmd, response, inbox, outbox, ones, supplied, logged, probe >>

(***************************************************************************)
(* Hydrogen::set / get / delete / keys under the lock, and the response    *)
(* execute_command makes of the result                                     *)
(***************************************************************************)
OnesOf(k) == IF k \in DOMAIN ones THEN ones[k] ELSE 0

\* the counter of DEL replies "1" stops at 2: one too many is all a claim needs
MaxOnes == 2

Bump(n) == IF n < MaxOnes THEN n + 1 ELSE n

\* set that keeps an entry the key already has (entry().or_insert)
set_storage_keep(c) ==
    IF cmd[c].key \in DOMAIN storage
    THEN storage
    ELSE insert(storage, cmd[c].key, CacheEntry_new(cmd[c].value))

\* storage.insert(key, entry)
set_storage(c) == insert(storage, cmd[c].key, CacheEntry_new(cmd[c].value))

set(c) ==
    /\ pc[c] = "Holding"
    /\ cmd[c].kind = "Set"
    /\ Holds(c)
    /\ storage' = set_storage(c)
    /\ ones' = insert(ones, cmd[c].key, 0)
    /\ release(c)
    /\ response' = [ response EXCEPT ![c] = R_OK ]
    /\ pc' = [ pc EXCEPT ![c] = "Responding" ]
    /\ UNCHANGED << line, cmd, inbox, outbox, wlog, supplied, logged, probe >>

\* Hydrogen::get and its match in execute_command
get_response(c) ==
    IF cmd[c].key \in DOMAIN storage
    THEN IF get_value(storage[cmd[c].key]).ok
         THEN get_value(storage[cmd[c].key]).value
         ELSE R_DECOMPRESSION
    ELSE R_NULL

get(c) ==
    /\ pc[c] = "Holding"
    /\ cmd[c].kind = "Get"
    /\ Holds(c)
    /\ release(c)
    /\ response' = [ response EXCEPT ![c] = get_response(c) ]
    /\ pc' = [ pc EXCEPT ![c] = "Responding" ]
    /\ UNCHANGED << storage, line, cmd, inbox, outbox, histVars, logged, probe >>

\* delete that looks the key up and leaves it in the map
delete_storage_keep(c) == storage

\* storage.remove(key)
delete_storage(c) == remove(storage, cmd[c].key)

\* existed, as execute_command answers it
delete_response(c) == IF cmd[c].key \in DOMAIN storage THEN R_1 ELSE R_0

delete(c) ==
    /\ pc[c] = "Holding"
    /\ cmd[c].kind = "Delete"
    /\ Holds(c)
    /\ storage' = delete_storage(c)
    /\ ones' = IF delete_response(c) = R_1
               THEN insert(ones, cmd[c].key, Bump(OnesOf(cmd[c].key)))
               ELSE ones
    /\ release(c)
    /\ response' = [ response EXCEPT ![c] = delete_response(c) ]
    /\ pc' = [ pc EXCEPT ![c] = "Responding" ]
    /\ UNCHANGED << line, cmd, inbox, outbox, wlog, supplied, logged, probe >>

\* the orders in which a HashMap may enumerate a set of keys
Orders(S) ==
    { f \in [ 1..Cardinality(S) -> S ] :
        \A i, j \in 1..Cardinality(S) : f[i] = f[j] => i = j }

\* execute_command without the is_empty branch
keys_response_no_empty(ks) == join(ks, << " " >>)

\* execute_command on the Vec keys() returned
keys_response(ks) == IF ks = << >> THEN R_EMPTY ELSE join(ks, << " " >>)

keys(c) ==
    /\ pc[c] = "Holding"
    /\ cmd[c].kind = "Keys"
    /\ Holds(c)
    /\ release(c)
    /\ \E ks \in Orders(DOMAIN storage) :
           response' = [ response EXCEPT ![c] = keys_response(ks) ]
    /\ pc' = [ pc EXCEPT ![c] = "Responding" ]
    /\ UNCHANGED << storage, line, cmd, inbox, outbox, histVars, logged, probe >>

\* the loop going round without the response being written
WriteOk_drop(c) ==
    /\ pc[c] = "Responding"
    /\ pc' = [ pc EXCEPT ![c] = "Reading" ]
    /\ line' = [ line EXCEPT ![c] = << >> ]
    /\ cmd' = [ cmd EXCEPT ![c] = NoCmd ]
    /\ response' = [ response EXCEPT ![c] = << >> ]
    /\ logged' = [ logged EXCEPT ![c] = << >> ]
    /\ UNCHANGED << storage, lockVars, inbox, outbox, histVars, probe >>

\* writer.write_all succeeds: back to the top of the loop, line.clear()
WriteOk(c) ==
    /\ pc[c] = "Responding"
    /\ outbox' = [ outbox EXCEPT ![c] = Append(@, response[c]) ]
    /\ pc' = [ pc EXCEPT ![c] = "Reading" ]
    /\ line' = [ line EXCEPT ![c] = << >> ]
    /\ cmd' = [ cmd EXCEPT ![c] = NoCmd ]
    /\ response' = [ response EXCEPT ![c] = << >> ]
    /\ logged' = [ logged EXCEPT ![c] = << >> ]
    /\ UNCHANGED << storage, lockVars, inbox, histVars, probe >>

\* the result of write_all dropped: the loop goes on after a failed write
WriteError_ignored(c) ==
    /\ pc[c] = "Responding"
    /\ ERR \in Range(inbox[c])
    /\ pc' = [ pc EXCEPT ![c] = "Reading" ]
    /\ line' = [ line EXCEPT ![c] = << >> ]
    /\ cmd' = [ cmd EXCEPT ![c] = NoCmd ]
    /\ response' = [ response EXCEPT ![c] = << >> ]
    /\ logged' = [ logged EXCEPT ![c] = << >> ]
    /\ UNCHANGED << storage, lockVars, inbox, outbox, histVars, probe >>

\* writer.write_all fails: break
WriteError(c) ==
    /\ pc[c] = "Responding"
    /\ ERR \in Range(inbox[c])
    /\ Close(c)
    /\ UNCHANGED << storage, lockVars, outbox, histVars, probe >>

Server(c) ==
    \/ Accept(c)
    \/ ReadEof(c)
    \/ ReadInvalidUtf8(c)
    \/ ReadError(c)
    \/ ReadBlank(c)
    \/ ReadInvalid(c)
    \/ ReadCommand(c)
    \/ Grant(c)
    \/ set(c)
    \/ get(c)
    \/ delete(c)
    \/ keys(c)
    \/ WriteOk(c)
    \/ WriteError(c)

Next ==
    \E c \in Conns :
        \/ ClientSend(c)
        \/ ClientRecv(c)
        \/ ClientClose(c)
        \/ ClientReset(c)
        \/ Server(c)

Spec == Init /\ [][Next]_vars

\* a Store operation of connection c between its awaits
Operation(c) == set(c) \/ get(c) \/ delete(c) \/ keys(c)

\* SpecFair: Spec with the runtime scheduling every task that can run (the
\* task at the head of the lock's queue once the lock can be handed to it, the
\* task inside a Store operation)
SpecFair ==
    /\ Spec
    /\ \A c \in Conns : WF_vars(Grant(c)) /\ WF_vars(Operation(c))

(***************************************************************************)
(* SpecFault: Spec with the compressor failing.  zstd's encode_all and     *)
(* decode_all return io::Result; on the values of the model they fail only *)
(* when the library cannot get its working memory, which is the            *)
(* environment's choice.  Spec and SpecScript are the program with a       *)
(* compressor that does not fail.                                          *)
(***************************************************************************)
\* format!("ERROR: {}", e) for CacheError::CompressionError
R_COMPRESSION == R_ERROR \o << "Compression failed" >>

\* a failed set that leaves an empty entry under the key
set_CompressionError_inserts(c) ==
    /\ Readable(c)
    /\ trim(Head(inbox[c])) # << >>
    /\ parse(trim(Head(inbox[c]))).ok
    /\ parse(trim(Head(inbox[c]))).kind = "Set"
    /\ inbox' = [ inbox EXCEPT ![c] = Tail(@) ]
    /\ line' = [ line EXCEPT ![c] = Head(inbox[c]) ]
    /\ cmd' = [ cmd EXCEPT ![c] = CmdOf(parse(trim(Head(inbox[c])))) ]
    /\ storage' = insert(storage, parse(trim(Head(inbox[c]))).key,
                         [ compressed_data |-> << >> ])
    /\ response' = [ response EXCEPT ![c] = R_COMPRESSION ]
    /\ pc' = [ pc EXCEPT ![c] = "Responding" ]
    /\ supplied' = supplied \cup supplies(parse(trim(Head(inbox[c]))))
    /\ logged' = [ logged EXCEPT ![c] = log_command(parse(trim(Head(inbox[c])))) ]
    /\ UNCHANGED << lockVars, outbox, wlog, ones, probe >>

\* read_line returns a SET and CacheEntry::new returns Err: set returns
\* through the ? before it asks for the lock
set_CompressionError(c) ==
    /\ Readable(c)
    /\ trim(Head(inbox[c])) # << >>
    /\ parse(trim(Head(inbox[c]))).ok
    /\ parse(trim(Head(inbox[c]))).kind = "Set"
    /\ inbox' = [ inbox EXCEPT ![c] = Tail(@) ]
    /\ line' = [ line EXCEPT ![c] = Head(inbox[c]) ]
    /\ cmd' = [ cmd EXCEPT ![c] = CmdOf(parse(trim(Head(inbox[c])))) ]
    /\ response' = [ response EXCEPT ![c] = R_COMPRESSION ]
    /\ pc' = [ pc EXCEPT ![c] = "Responding" ]
    /\ supplied' = supplied \cup supplies(parse(trim(Head(inbox[c]))))
    /\ logged' = [ logged EXCEPT ![c] = log_command(parse(trim(Head(inbox[c])))) ]
    /\ UNCHANGED << storage, lockVars, outbox, wlog, ones, probe >>

\* get finds the entry and entry.get_value() returns Err
get_DecompressionError(c) ==
    /\ pc[c] = "Holding"
    /\ cmd[c].kind = "Get"
    /\ Holds(c)
    /\ cmd[c].key \in DOMAIN storage
    /\ release(c)
    /\ response' = [ response EXCEPT ![c] = R_DECOMPRESSION ]
    /\ pc' = [ pc EXCEPT ![c] = "Responding" ]
    /\ UNCHANGED << storage, line, cmd, inbox, outbox, histVars, logged, probe >>

NextFault ==
    \E c \in Conns :
        \/ ClientSend(c)
        \/ ClientRecv(c)
        \/ ClientClose(c)
        \/ ClientReset(c)
        \/ Server(c)
        \/ set_CompressionError(c)
        \/ get_DecompressionError(c)

SpecFault == Init /\ [][NextFault]_vars

(***************************************************************************)
(* SpecScript: one client sends a script of request lines drawn in the     *)
(* initial state, and the server works through it.  The scripts cover the  *)
(* parser's inputs over bounded alphabets.                                 *)
(***************************************************************************)
\* the longest value of a round-trip script
MaxValueLen == 3

\* the longest key of a key script
MaxKeyLen == 4

Strings(alphabet, n) == UNION { [ 1..k -> alphabet ] : k \in 0..n }

ValueAlphabet == { "a", " ", "\t", "\"" }

\* a letter, a digit, the separators, a space and another character
KeyAlphabet == { "a", "1", "-", "_", " ", "!" }

Quote == << "\"" >>

K_k1 == << "k", "-", "1" >>

RoundTripKeys == { << "a" >>, K_k1 }

\* SET k v (v as it is, or inside double quotes), then GET k
RoundTripScripts ==
    { [ kind |-> "roundtrip", word |-> S_SET, key |-> k, value |-> v,
        quoted |-> q,
        script |-> << S_SET \o SP \o k \o SP
                         \o (IF q THEN Quote \o v \o Quote ELSE v),
                      S_GET \o SP \o k >> ] :
      k \in RoundTripKeys, v \in Strings(ValueAlphabet, MaxValueLen),
      q \in BOOLEAN }

KeyWords == { S_SET, S_GET, S_DEL, S_DELETE }

V_v == << "v" >>

\* one command on the key s
KeyScripts ==
    { [ kind |-> "key", word |-> w, key |-> s, value |-> V_v, quoted |-> FALSE,
        script |-> << w \o SP \o s
                        \o (IF to_uppercase(w) = S_SET THEN SP \o V_v ELSE << >>) >> ] :
      w \in KeyWords, s \in Strings(KeyAlphabet, MaxKeyLen) }

K_1key == << "1", "k", "e", "y" >>
K_key_hy == << "k", "e", "y", "-" >>
K_hy_key == << "-", "k", "e", "y" >>
K_key__name == << "k", "e", "y", "_", "_", "n", "a", "m", "e" >>
K_has_space == << "\"", "h", "a", "s", " ", "s", "p", "a", "c", "e", "\"" >>
K_valid == << "v", "a", "l", "i", "d", "-", "k", "e", "y", "_", "1" >>

RejectedExamples == { K_key_hy, K_hy_key, K_key__name, K_has_space }

\* SET a 1, then GET on one of the keys the specification names
ExampleScripts ==
    { [ kind |-> "example", word |-> S_GET, key |-> s, value |-> << >>,
        quoted |-> FALSE, script |-> << L_SET_a_1, S_GET \o SP \o s >> ] :
      s \in RejectedExamples \cup { K_valid, K_1key } }

\* lines Command::parse rejects: unknown command, missing or extra arguments,
\* invalid key
BadLines ==
    { L_FOO_bar, L_GET_bad, S_GET, S_SET, S_DEL,
      S_SET \o SP \o << "a" >>,
      S_GET \o SP \o << "a" >> \o SP \o << "b" >>,
      S_KEYS \o SP \o << "x" >>,
      S_SET \o SP \o << "a", "!" >> \o SP \o << "1" >>,
      S_DELETE \o SP \o << "a", "_" >> }

BlankLines == { << " " >>, L_BLANK, << "\r" >> }

\* SET a 1, a line without a command in it, GET a
RecoveryScripts ==
    { [ kind |-> "recovery", word |-> << >>, key |-> << >>, value |-> << >>,
        quoted |-> FALSE, script |-> << L_SET_a_1, l, L_GET_a >> ] :
      l \in BadLines \cup BlankLines \cup { << >>, L_NOT_UTF8, ERR } }

L_SET_a_NULL == S_SET \o SP \o << "a" >> \o SP \o R_NULL

\* a session that uses every command and ends, one the transport ends, and
\* one that stores the text NULL
SessionScripts ==
    { [ kind |-> "session", word |-> << >>, key |-> << >>, value |-> << >>,
        quoted |-> FALSE,
        script |-> sc ] :
      sc \in { << L_SET_b_1, L_SET_a_2, L_KEYS, L_DEL_a, L_DEL_a, L_GET_a, EOF >>,
               << L_BLANK, ERR >>,
               << L_SET_a_NULL, L_GET_a >> } }

LF == << "\n" >>

\* a reader that hands over all the bytes it has as one line
read_lines_unsplit(buf) == IF buf = << >> THEN << >> ELSE << buf >>

\* the lines successive calls of read_line return for the bytes on the
\* socket: each runs up to its line feed and includes it
RECURSIVE read_lines(_)
read_lines(buf) ==
    LET n == IF contains(buf, "\n") THEN find(buf, "\n") ELSE Len(buf)
    IN  IF buf = << >> THEN << >>
        ELSE << SubSeq(buf, 1, n) >> \o read_lines(SubSeq(buf, n + 1, Len(buf)))

\* what a client may put after SET a, line feeds included
PayloadAlphabet == { "a", " ", "\"", "\n" }

\* the bytes SET a <payload> and a line feed as read_line cuts them into
\* lines, then GET a
StreamScripts ==
    { [ kind |-> "stream", word |-> S_SET, key |-> << "a" >>, value |-> v,
        quoted |-> FALSE,
        script |-> read_lines(S_SET \o SP \o << "a" >> \o SP \o v \o LF)
                       \o << L_GET_a \o LF >> ] :
      v \in Strings(PayloadAlphabet, MaxValueLen + 2) }

\* what a client may name as the key of a SET, a tab included
StoreKeyAlphabet == { "a", "1", "-", "\t" }

\* SET s v, then SET k-1 v, then KEYS
StoreScripts ==
    { [ kind |-> "store", word |-> S_SET, key |-> s, value |-> V_v,
        quoted |-> FALSE,
        script |-> << S_SET \o SP \o s \o SP \o V_v,
                      S_SET \o SP \o K_k1 \o SP \o V_v,
                      L_KEYS >> ] :
      s \in Strings(StoreKeyAlphabet, MaxKeyLen) }

\* a command word as a client may type it: each letter in either case
CaseVariants(w) ==
    { [ i \in 1..Len(w) |->
          IF i \in small THEN LowerSeq[IndexOf(UpperSeq, w[i])] ELSE w[i] ] :
      small \in SUBSET (1..Len(w)) }

\* first tokens that are no command
OtherWords ==
    { << "F", "O", "O" >>, << "G", "E", "T", "S" >>, << "S", "E" >>,
      << "K", "E", "Y" >>, << "D", "E", "L", "E", "T" >>, << "g", "e", "t", "_" >> }

\* the whitespace a client may put after the first token
Separators == { " ", "\t" }

\* the arguments that make a well-formed command of the word
ArgsOf(w) ==
    IF to_uppercase(w) = S_SET THEN << "a" >> \o SP \o << "1" >>
    ELSE IF to_uppercase(w) = S_KEYS THEN << >>
    ELSE << "a" >>

\* one command: the word, one whitespace character, the arguments
WordScripts ==
    { [ kind |-> "word", word |-> w, key |-> << "a" >>, value |-> << sep >>,
        quoted |-> FALSE,
        script |-> << IF ArgsOf(w) = << >> THEN w
                      ELSE w \o << sep >> \o ArgsOf(w) >> ] :
      w \in CaseVariants(S_SET) \cup CaseVariants(S_GET) \cup CaseVariants(S_DEL)
               \cup CaseVariants(S_DELETE) \cup CaseVariants(S_KEYS)
               \cup OtherWords,
      sep \in Separators }

Scripts ==
    RoundTripScripts \cup KeyScripts \cup ExampleScripts \cup RecoveryScripts
        \cup SessionScripts \cup WordScripts \cup StreamScripts
        \cup StoreScripts

Client == "c1"

InitScript ==
    /\ InitServer
    /\ probe \in Scripts
    /\ inbox = [ c \in Conns |-> IF c = Client THEN probe.script ELSE << >> ]

NextScript == Server(Client)

SpecScript == InitScript /\ [][NextScript]_vars

(***************************************************************************)
(* C1  Round trip                                                          *)
(***************************************************************************)
\* an unquoted value the parser leaves as it is: not empty, no whitespace at
\* its ends, no whitespace but single spaces, not wrapped in double quotes
Canonical(v) ==
    /\ v # << >>
    /\ ~is_whitespace(v[1])
    /\ ~is_whitespace(v[Len(v)])
    /\ \A i \in 1..Len(v) : is_whitespace(v[i]) => v[i] = " "
    /\ \A i \in 1..(Len(v) - 1) : ~(is_whitespace(v[i]) /\ is_whitespace(v[i + 1]))
    /\ ~(Len(v) >= 2 /\ v[1] = "\"" /\ v[Len(v)] = "\"")

\* C1 as claimed: for every valid key k and every value v, SET k v and then
\* GET k on a connection are answered OK and then exactly v.
C1_RoundTripAnyValue ==
    (probe.kind = "roundtrip" /\ Len(outbox[Client]) = 2)
        => outbox[Client] = << R_OK, probe.value >>

\* C1 amended: SET k v and then GET k are answered OK and then exactly v
\* when v is sent inside double quotes, and when v is sent unquoted exactly if
\* v is not empty, has no whitespace at its ends, has single spaces as its
\* only whitespace and is not itself wrapped in double quotes.
C1_RoundTrip ==
    (probe.kind = "roundtrip" /\ Len(outbox[Client]) = 2)
        => (outbox[Client] = << R_OK, probe.value >>
                <=> (probe.quoted \/ Canonical(probe.value)))

C1_Witness ==
    /\ probe.kind = "roundtrip"
    /\ probe.quoted
    /\ probe.value = << "a", "\t", " " >>
    /\ outbox[Client] = << R_OK, << "a", "\t", " " >> >>

(***************************************************************************)
(* C2  Last writer wins                                                    *)
(***************************************************************************)
\* the step in which connection c's Store operation of this kind returns
Returns(c, kind) ==
    pc[c] = "Holding" /\ cmd[c].kind = kind /\ pc'[c] = "Responding"

\* C2: a GET k replies with the value of the most recent SET k in the order
\* in which the writers obtained exclusive access, unless a DEL k obtained it
\* after that SET.
C2_LastWriterWins ==
    [][ \A c \in Conns :
          (Returns(c, "Get") /\ cmd[c].key \in DOMAIN wlog)
              => response'[c] = wlog[cmd[c].key] ]_vars

\* SET a 1 has been executed, SET a 2 after it, and a GET a is answered 2
C2_Witness ==
    \E c \in Conns :
        /\ pc[c] = "Responding"
        /\ cmd[c].kind = "Get"
        /\ response[c] = << "2" >>
        /\ { << << "a" >>, << "1" >> >>, << << "a" >>, << "2" >> >> } \subseteq supplied
        /\ \A d \in Conns : cmd[d].kind # "Set"

(***************************************************************************)
(* C3  Concurrent SETs                                                     *)
(***************************************************************************)
\* C3: when two connections have both executed a SET on the same key, the
\* entry of the key reads back as exactly one of the two values; and a GET
\* never replies with anything but NULL or a value some SET on its key
\* supplied in full.
C3_ConcurrentSets ==
    /\ \A c, d \in Conns :
           ( /\ c # d
             /\ pc[c] = "Responding" /\ cmd[c].kind = "Set"
             /\ pc[d] = "Responding" /\ cmd[d].kind = "Set"
             /\ cmd[c].key = cmd[d].key )
           => /\ cmd[c].key \in DOMAIN storage
              /\ get_value(storage[cmd[c].key]).ok
              /\ get_value(storage[cmd[c].key]).value
                     \in { cmd[c].value, cmd[d].value }
    /\ \A c \in Conns :
           (pc[c] = "Responding" /\ cmd[c].kind = "Get" /\ response[c] # R_NULL)
               => << cmd[c].key, response[c] >> \in supplied

\* both connections have executed a SET a, with different values, neither has
\* written its reply yet, and the one that came second determined the entry
C3_Witness ==
    \E c, d \in Conns :
        /\ pc[c] = "Responding" /\ cmd[c].kind = "Set"
        /\ pc[d] = "Responding" /\ cmd[d].kind = "Set"
        /\ cmd[c].key = cmd[d].key
        /\ cmd[c].value # cmd[d].value
        /\ get_value(storage[cmd[c].key]).value = cmd[c].value

(***************************************************************************)
(* C4  DEL and existence                                                   *)
(***************************************************************************)
\* C4: a DEL k replies 1 exactly if k is in the Store when the delete holds
\* exclusive access, and k is absent afterwards; a DEL on an absent key
\* replies 0 and leaves the Store as it is; between two insertions of k at
\* most one DEL k replies 1.
C4_DelExistence ==
    [][ \A c \in Conns :
          Returns(c, "Delete")
              => /\ response'[c] \in { R_0, R_1 }
                 /\ response'[c] = R_1 <=> cmd[c].key \in DOMAIN storage
                 /\ cmd[c].key \notin DOMAIN storage'
                 /\ cmd[c].key \notin DOMAIN storage => storage' = storage
                 /\ \A k \in DOMAIN ones' : ones'[k] <= 1 ]_vars

\* after an insertion of a, one DEL a has replied 1 and a later one replies 0
C4_Witness ==
    \E c \in Conns :
        /\ pc[c] = "Responding"
        /\ cmd[c].kind = "Delete"
        /\ response[c] = R_0
        /\ OnesOf(cmd[c].key) = 1
        /\ cmd[c].key \notin DOMAIN storage

(***************************************************************************)
(* C5  KEYS is a snapshot                                                  *)
(***************************************************************************)
\* C5: the reply to KEYS is (empty) when the Store holds no key while the
\* shared access is held, and otherwise the keys held at that moment, each
\* once and no other, joined by spaces; nothing that happens between the
\* snapshot and the write changes the reply.
C5_KeysSnapshot ==
    [][ \A c \in Conns :
          /\ Returns(c, "Keys")
                => IF DOMAIN storage = {}
                   THEN response'[c] = R_EMPTY
                   ELSE /\ response'[c] # R_EMPTY
                        /\ Len(split_whitespace(response'[c]))
                               = Cardinality(DOMAIN storage)
                        /\ Range(split_whitespace(response'[c])) = DOMAIN storage
                        /\ join(split_whitespace(response'[c]), SP) = response'[c]
          /\ (pc[c] = "Responding" /\ pc'[c] = "Responding")
                => response'[c] = response[c]
          /\ (pc[c] = "Responding" /\ pc'[c] = "Reading")
                => outbox'[c] = Append(outbox[c], response[c]) ]_vars

\* a KEYS reply naming a and b waits to be written while a is no longer held
C5_Witness ==
    \E c \in Conns :
        /\ pc[c] = "Responding"
        /\ cmd[c].kind = "Keys"
        /\ Range(split_whitespace(response[c])) = { << "a" >>, << "b" >> }
        /\ DOMAIN storage = { << "b" >> }

(***************************************************************************)
(* C6  A parse failure is recovered locally                                *)
(***************************************************************************)
\* the step in which connection c takes the line at the head of its inbox
Reads(c) == Readable(c) /\ Len(inbox'[c]) < Len(inbox[c])

\* C6: a line the parser rejects is answered with exactly
\* ERROR: Invalid endpoint format, the Store and its lock are left as they
\* are, the reply is written and the connection is back in Reading; the line
\* after it is served as if the rejected line had not been sent.
C6_ParseFailureRecovered ==
    [][ /\ \A c \in Conns :
              ( /\ Reads(c)
                /\ trim(Head(inbox[c])) # << >>
                /\ ~parse(trim(Head(inbox[c]))).ok )
              => /\ pc'[c] = "Responding"
                 /\ response'[c] = R_INVALID
                 /\ inbox'[c] = Tail(inbox[c])
                 /\ storage' = storage
                 /\ lockVars' = lockVars
        /\ \A c \in Conns :
              ( /\ pc[c] = "Responding"
                /\ cmd[c] = NoCmd
                /\ ERR \notin Range(inbox[c])
                /\ pc'[c] # pc[c] )
              => /\ pc'[c] = "Reading"
                 /\ outbox'[c] = Append(outbox[c], R_INVALID)
                 /\ inbox'[c] = inbox[c]
        /\ ( /\ probe'.kind = "recovery"
             /\ probe'.script[2] \in BadLines
             /\ Len(outbox'[Client]) = 3 )
           => outbox'[Client] = << R_OK, R_INVALID, << "1" >> >> ]_vars

\* SET a 1, FOO bar, GET a have been answered OK, the error line and 1
C6_Witness ==
    /\ probe.kind = "recovery"
    /\ probe.script[2] = L_FOO_bar
    /\ outbox[Client] = << R_OK, R_INVALID, << "1" >> >>

(***************************************************************************)
(* C7  A line that is not UTF-8                                            *)
(***************************************************************************)
R_INVALID_UTF8 ==
    R_ERROR \o << "I", "n", "v", "a", "l", "i", "d", " ", "U", "T", "F", "-", "8" >>

\* C7: a request line that is not UTF-8 is answered ERROR: Invalid UTF-8 and
\* the connection stays open.
C7_InvalidUtf8Recovered ==
    [][ \A c \in Conns :
          ( /\ pc[c] = "Reading"
            /\ inbox[c] # << >>
            /\ Head(inbox[c]) \notin { EOF, ERR }
            /\ ~is_valid_utf8(Head(inbox[c]))
            /\ Len(inbox'[c]) < Len(inbox[c]) )
          => /\ pc'[c] = "Responding"
             /\ response'[c] = R_INVALID_UTF8 ]_vars

(***************************************************************************)
(* C8  The keys the specification names                                    *)
(***************************************************************************)
Stored_a_1 ==
    /\ DOMAIN storage = { << "a" >> }
    /\ get_value(storage[<< "a" >>]).ok
    /\ get_value(storage[<< "a" >>]).value = << "1" >>

\* the replies and the state once GET s has been read, for the keys named
\* as rejected and as accepted
ExamplesHold(rejected, accepted) ==
    (probe.kind = "example" /\ inbox[Client] = << >>)
        => /\ Stored_a_1
           /\ probe.key \in rejected
                 => /\ pc[Client] \in { "Responding", "Reading" }
                    /\ cmd[Client] = NoCmd
                    /\ ~Holds(Client)
                    /\ Client \notin Range(waiters)
                    /\ pc[Client] = "Responding" => response[Client] = R_INVALID
                    /\ pc[Client] = "Reading"
                          => outbox[Client] = << R_OK, R_INVALID >>
           /\ probe.key \in accepted
                 => /\ pc[Client] \in { "Waiting", "Holding", "Responding", "Reading" }
                    /\ pc[Client] # "Reading"
                          => cmd[Client] = [ kind |-> "Get", key |-> probe.key,
                                             value |-> << >> ]
                    /\ pc[Client] = "Waiting" => Client \in Range(waiters)
                    /\ pc[Client] = "Holding" => Client \in readers
                    /\ pc[Client] = "Responding" => response[Client] = R_NULL
                    /\ pc[Client] = "Reading"
                          => outbox[Client] = << R_OK, R_NULL >>

\* C8 as claimed: GET 1key, GET key-, GET -key, GET key__name and
\* GET "has space" are each answered ERROR: Invalid endpoint format without
\* the Store being touched; GET valid-key_1 is parsed as Get and goes to the
\* Store.
C8_KeyExamplesAsClaimed ==
    ExamplesHold(RejectedExamples \cup { K_1key }, { K_valid })

\* C8 amended: GET key-, GET -key, GET key__name and GET "has space" are each
\* answered ERROR: Invalid endpoint format without the Store being touched;
\* GET 1key and GET valid-key_1 are parsed as Get and go to the Store.
C8_KeyExamples == ExamplesHold(RejectedExamples, { K_valid, K_1key })

\* GET 1key holds the Store's shared access
C8_Witness ==
    /\ probe.kind = "example"
    /\ pc[Client] = "Holding"
    /\ cmd[Client].key = K_1key
    /\ Client \in readers

(***************************************************************************)
(* C9  Key validation                                                      *)
(***************************************************************************)
\* the rule as the specification words it
KeyRule(s) ==
    /\ s # << >>
    /\ \A i \in 1..Len(s) :
          s[i] \in Range(LowerSeq) \cup Range(UpperSeq) \cup Range(DigitSeq)
                     \cup { "-", "_" }
    /\ s[1] \notin { "-", "_" }
    /\ s[Len(s)] \notin { "-", "_" }
    /\ \A i \in 1..(Len(s) - 1) :
          ~(s[i] \in { "-", "_" } /\ s[i + 1] \in { "-", "_" })

KindOf(w) ==
    IF w = S_SET THEN "Set" ELSE IF w = S_GET THEN "Get" ELSE "Delete"

\* the string is the key argument of the command as it stands
IsKeyArgument(w, s) == trim(s) = s /\ (w = S_SET => ~contains(s, " "))

\* C9: key validation accepts a string exactly if it is not empty, has only
\* ASCII letters, digits, hyphens and underscores, has no hyphen or
\* underscore at either end and no two of them in a row; SET, GET, DEL and
\* DELETE accept or reject their key argument by that decision.
C9_KeyValidation ==
    probe.kind = "key"
        => /\ validate_key(probe.key).ok <=> KeyRule(probe.key)
           /\ ( /\ IsKeyArgument(probe.word, probe.key)
                /\ pc[Client] \in { "Waiting", "Holding", "Responding" } )
              => /\ cmd[Client].kind # "None" <=> KeyRule(probe.key)
                 /\ cmd[Client].kind # "None"
                       => /\ cmd[Client].key = probe.key
                          /\ cmd[Client].kind = KindOf(probe.word)
                 /\ cmd[Client].kind = "None" => response[Client] = R_INVALID

\* DELETE a_1 has been accepted and holds the Store
C9_Witness ==
    /\ probe.kind = "key"
    /\ probe.word = S_DELETE
    /\ probe.key = << "a", "_", "1" >>
    /\ pc[Client] = "Holding"
    /\ cmd[Client].kind = "Delete"

(***************************************************************************)
(* C10  Blank lines                                                        *)
(***************************************************************************)
\* C10: reading an empty or whitespace-only line writes nothing, touches
\* neither the Store nor its lock and leaves the connection in Reading; the
\* lines around it are answered as if it had not been sent.
C10_BlankLineSkipped ==
    [][ /\ \A c \in Conns :
              (Reads(c) /\ trim(Head(inbox[c])) = << >>)
              => /\ pc'[c] = "Reading"
                 /\ inbox'[c] = Tail(inbox[c])
                 /\ outbox' = outbox
                 /\ response' = response
                 /\ cmd' = cmd
                 /\ storage' = storage
                 /\ lockVars' = lockVars
                 /\ histVars' = histVars
        /\ ( /\ probe'.kind = "recovery"
             /\ probe'.script[2] \in BlankLines \cup { << >> }
             /\ Len(outbox'[Client]) >= 2 )
           => outbox'[Client] = << R_OK, << "1" >> >> ]_vars

\* SET a 1, a line of a space and a tab, GET a have been answered OK and 1
C10_Witness ==
    /\ probe.kind = "recovery"
    /\ probe.script[2] = L_BLANK
    /\ outbox[Client] = << R_OK, << "1" >> >>

(***************************************************************************)
(* C11  One response per request, in order                                 *)
(***************************************************************************)
\* a line that read_line returns and that holds a request
IsRequest(l) == l \notin { EOF, ERR } /\ is_valid_utf8(l) /\ trim(l) # << >>

\* what the connection has taken from its socket so far
Consumed(c) == SubSeq(probe.script, 1, Len(probe.script) - Len(inbox[c]))

Requests(s) == SelectSeq(s, IsRequest)

\* the response r has the form of a response to the request line l
Answers(l, r) ==
    LET p == parse(trim(l))
    IN  IF ~p.ok THEN r = R_INVALID
        ELSE IF p.kind = "Set" THEN r = R_OK
        ELSE IF p.kind = "Delete" THEN r \in { R_0, R_1 }
        ELSE IF p.kind = "Keys"
        THEN r = R_EMPTY \/ join(split_whitespace(r), SP) = r
        ELSE r \notin { R_OK, R_0, R_INVALID, R_EMPTY }

SessionLines == << L_SET_b_1, L_SET_a_2, L_KEYS, L_DEL_a, L_DEL_a, L_GET_a, EOF >>

SessionReplies ==
    { << R_OK, R_OK, ks, R_1, R_0, R_NULL >> :
        ks \in { << "a", " ", "b" >>, << "b", " ", "a" >> } }

\* C11: on a connection that has all its request lines waiting on the socket,
\* the responses written are one for each non-blank line taken so far, in the
\* order of the lines; while a request is dispatched or answered every
\* request before it has its response written and no line after it has been
\* taken; the connection asks for or holds the Store only for the request it
\* took last.
C11_OneResponsePerRequest ==
    LET req == Requests(Consumed(Client))
        n == Len(req)
        out == outbox[Client]
    IN  /\ pc[Client] \in { "Idle", "Reading" } => Len(out) = n
        /\ pc[Client] \in { "Waiting", "Holding", "Responding" }
              => /\ n >= 1
                 /\ Len(out) = n - 1
                 /\ line[Client] = req[n]
                 /\ Consumed(Client)[Len(Consumed(Client))] = req[n]
        /\ pc[Client] # "Closed"
              => \A i \in 1..Len(out) : i <= n /\ Answers(req[i], out[i])
        /\ (Client \in Range(waiters) \/ Holds(Client))
              => /\ pc[Client] \in { "Waiting", "Holding" }
                 /\ cmd[Client] = CmdOf(parse(trim(req[n])))
        /\ pc[Client] = "Closed"
              => Len(out) <= Len(Requests(probe.script))
        /\ (probe.script = SessionLines /\ Len(out) = 6) => out \in SessionReplies

\* the six requests of the session have their six responses, in order, and the
\* end of the stream has not been read yet
C11_Witness ==
    /\ probe.script = SessionLines
    /\ pc[Client] = "Reading"
    /\ inbox[Client] = << EOF >>
    /\ outbox[Client] \in SessionReplies

(***************************************************************************)
(* C12  A transport error closes one connection only                       *)
(***************************************************************************)
\* the step in which connection c's task ends
Closes(c) == pc[c] # "Closed" /\ pc'[c] = "Closed"

\* the connection can take its next step whatever the others have come to
Proceeds(d) ==
    /\ pc[d] = "Idle" => ENABLED Accept(d)
    /\ ( /\ pc[d] = "Waiting"
         /\ Head(waiters) = d
         /\ \A e \in Conns : pc[e] # "Holding" ) => ENABLED Grant(d)
    /\ pc[d] = "Holding" => ENABLED (set(d) \/ get(d) \/ delete(d) \/ keys(d))
    /\ pc[d] = "Responding" => ENABLED WriteOk(d)

\* C12: the step that closes a connection (end of stream, read error, write
\* error) leaves the Store, its lock and its queue, and every field of every
\* other connection as they are; a closed connection neither holds nor waits
\* for the lock; and whatever connections have closed, a connection not yet
\* accepted can be accepted, one at the head of the queue is granted the lock
\* once no operation holds it, one holding the lock can run its Store
\* operation and one with a response can write it.
C12_ClosureIsLocal ==
    [][ /\ \A c \in Conns :
             Closes(c)
                => /\ pc[c] \in { "Reading", "Responding" }
                   /\ storage' = storage
                   /\ lockVars' = lockVars
                   /\ histVars' = histVars
                   /\ \A d \in Conns \ { c } :
                         /\ pc'[d] = pc[d]
                         /\ line'[d] = line[d]
                         /\ cmd'[d] = cmd[d]
                         /\ response'[d] = response[d]
                         /\ inbox'[d] = inbox[d]
                         /\ outbox'[d] = outbox[d]
        /\ \A c \in Conns :
             pc'[c] = "Closed"
                => /\ ~Holds(c)'
                   /\ c \notin Range(waiters')
                   /\ \A d \in Conns \ { c } : Proceeds(d)' ]_vars

\* one connection is closed while the other holds the Store exclusively, the
\* Store keeping the entry written before the closure
C12_Witness ==
    \E c, d \in Conns :
        /\ pc[c] = "Closed"
        /\ pc[d] = "Holding"
        /\ writer = d
        /\ cmd[d].kind = "Delete"
        /\ << "a" >> \in DOMAIN storage

(***************************************************************************)
(* C13  NULL stands for absence only                                       *)
(***************************************************************************)
\* C13: a GET k replies NULL exactly if k is absent from the Store when the
\* get holds the shared access; a GET that finds an entry never replies NULL.
C13_NullOnlyWhenAbsent ==
    [][ \A c \in Conns :
          Returns(c, "Get")
              => (response'[c] = R_NULL <=> cmd[c].key \notin DOMAIN storage) ]_vars

(***************************************************************************)
(* C14  Store access discipline                                            *)
(***************************************************************************)
\* the connections inside a set or a delete, and inside a get or a keys
InWrite == { c \in Conns : pc[c] = "Holding" /\ IsWrite(cmd[c]) }

InRead == { c \in Conns : pc[c] = "Holding" /\ ~IsWrite(cmd[c]) }

Exclusion ==
    /\ Cardinality(InWrite) <= 1
    /\ InWrite # {} => InRead = {}
    /\ \A c \in InWrite : writer = c /\ readers = {}
    /\ \A c \in InRead : c \in readers /\ writer = NoConn
    /\ \A c \in Conns : Holds(c) => pc[c] = "Holding"

\* C14: at most one set or delete is inside the map at a time and no get or
\* keys is inside it with one, while gets and keys may be inside it together;
\* the map changes only in the step of the set or delete that holds it
\* exclusively, and a get or keys computes its result only while it holds
\* the map shared and no writer holds it.
C14_AccessDiscipline ==
    [][ /\ Exclusion
        /\ Exclusion'
        /\ storage' # storage
              => \E c \in Conns :
                    /\ writer = c
                    /\ readers = {}
                    /\ Returns(c, "Set") \/ Returns(c, "Delete")
        /\ \A c \in Conns :
              (Returns(c, "Get") \/ Returns(c, "Keys"))
                 => c \in readers /\ writer = NoConn /\ storage' = storage
        /\ \A c \in Conns :
              (Returns(c, "Set") \/ Returns(c, "Delete"))
                 => writer = c /\ readers = {} ]_vars

\* a get and a keys hold the map at the same time
C14_Witness ==
    /\ readers = Conns
    /\ \A c \in Conns : pc[c] = "Holding"
    /\ \E c, d \in Conns : cmd[c].kind = "Get" /\ cmd[d].kind = "Keys"

(***************************************************************************)
(* C15  No Store operation blocks for ever                                 *)
(***************************************************************************)
\* C15: under fair scheduling, a connection that asks for the lock obtains
\* it, and a connection that holds it completes its operation, releases the
\* lock and has its response string.
C15_NoIndefiniteBlocking ==
    \A c \in Conns :
        (pc[c] \in { "Waiting", "Holding" })
            ~> (pc[c] = "Responding" /\ ~Holds(c) /\ response[c] # << >>)

\* a set waits in the queue behind a get that holds the map
C15_Witness ==
    \E c, d \in Conns :
        /\ pc[c] = "Waiting"
        /\ cmd[c].kind = "Set"
        /\ Head(waiters) = c
        /\ pc[d] = "Holding"
        /\ d \in readers

(***************************************************************************)
(* C16  A Store error is recovered locally                                 *)
(***************************************************************************)
IsErrorLine(r) == Len(r) > Len(R_ERROR) /\ SubSeq(r, 1, Len(R_ERROR)) = R_ERROR

\* the step in which a set of connection c fails: the SET is taken from the
\* socket and the lock is not asked for
SetFails(c) ==
    /\ Reads(c)
    /\ cmd'[c].kind = "Set"
    /\ pc'[c] # "Waiting"

\* the step in which a get of connection c finds the entry and does not
\* return its value
GetFails(c) ==
    /\ Returns(c, "Get")
    /\ cmd[c].key \in DOMAIN storage
    /\ response'[c] # get_response(c)

\* C16: a set whose compression fails and a get whose decompression fails
\* have the response ERROR: <message>; the failing step leaves the map as it
\* is and leaves no lock held by the connection; the response is written and
\* the connection is back in Reading.
C16_StoreErrorRecovered ==
    [][ \A c \in Conns :
          /\ (SetFails(c) \/ GetFails(c))
                => /\ pc'[c] = "Responding"
                   /\ IsErrorLine(response'[c])
                   /\ storage' = storage
                   /\ ~Holds(c)'
                   /\ c \notin Range(waiters')
          /\ SetFails(c) => response'[c] = R_COMPRESSION /\ lockVars' = lockVars
          /\ GetFails(c) => response'[c] = R_DECOMPRESSION
          /\ ( /\ pc[c] = "Responding"
               /\ IsErrorLine(response[c])
               /\ ERR \notin Range(inbox[c])
               /\ pc'[c] # pc[c] )
                => /\ pc'[c] = "Reading"
                   /\ outbox'[c] = Append(outbox[c], response[c])
                   /\ storage' = storage ]_vars

\* a SET a was answered with the compression error, the connection is back
\* in Reading and the map still has no key
C16_Witness ==
    \E c \in Conns :
        /\ pc[c] = "Reading"
        /\ outbox[c] = << R_COMPRESSION >>
        /\ storage = << >>
        /\ << "a" >> \in { s[1] : s \in supplied }

(***************************************************************************)
(* C17  The first token selects the command                                *)
(***************************************************************************)
\* the kind the first token stands for, whatever the case of its letters
ClaimedKind(w) ==
    IF to_uppercase(w) = S_SET THEN "Set"
    ELSE IF to_uppercase(w) = S_GET THEN "Get"
    ELSE IF to_uppercase(w) \in { S_DEL, S_DELETE } THEN "Delete"
    ELSE IF to_uppercase(w) = S_KEYS THEN "Keys"
    ELSE "None"

\* C17: for a line made of a first token, one whitespace character (a space
\* or a tab) and well-formed arguments, the command dispatched is the one the
\* token names, in any letter case: SET gives Set, GET gives Get, DEL and
\* DELETE give Delete, KEYS gives Keys, and any other token is answered as a
\* parse error.
C17_CommandSelection ==
    ( /\ probe.kind = "word"
      /\ inbox[Client] = << >>
      /\ pc[Client] \in { "Waiting", "Holding", "Responding" } )
        => /\ cmd[Client].kind = ClaimedKind(probe.word)
           /\ ClaimedKind(probe.word) = "None" => response[Client] = R_INVALID

(***************************************************************************)
(* C18  The value of a SET                                                 *)
(***************************************************************************)
\* the text with every run of whitespace replaced by one space
RECURSIVE Squeeze(_)
Squeeze(r) ==
    IF r = << >> THEN << >>
    ELSE IF ~is_whitespace(r[1]) THEN << r[1] >> \o Squeeze(Tail(r))
    ELSE IF Len(r) >= 2 /\ is_whitespace(r[2]) THEN Squeeze(Tail(r))
    ELSE SP \o Squeeze(Tail(r))

\* the remainder of the SET line of a round-trip script after its key, trimmed
Remainder == trim(IF probe.quoted THEN Quote \o probe.value \o Quote ELSE probe.value)

Wrapped(r) == Len(r) >= 2 /\ r[1] = "\"" /\ r[Len(r)] = "\""

ClaimedValue(r) == IF Wrapped(r) THEN SubSeq(r, 2, Len(r) - 1) ELSE Squeeze(r)

\* C18: the value of SET k <remainder> is the interior of the trimmed
\* remainder, character for character, when that starts and ends with a
\* double quote, and otherwise the trimmed remainder with every run of
\* whitespace replaced by one space; that value is what the Store holds once
\* the set is done; a SET with nothing after the key, with no key or with no
\* arguments is answered as a parse error and stores nothing.
C18_SetValueParsing ==
    /\ ( /\ probe.kind = "roundtrip"
         /\ Len(inbox[Client]) = 1
         /\ pc[Client] \in { "Waiting", "Holding", "Responding" } )
          => IF Remainder = << >>
             THEN /\ cmd[Client] = NoCmd
                  /\ response[Client] = R_INVALID
                  /\ storage = << >>
             ELSE /\ cmd[Client] = [ kind |-> "Set", key |-> probe.key,
                                     value |-> ClaimedValue(Remainder) ]
                  /\ pc[Client] = "Responding"
                        => /\ DOMAIN storage = { probe.key }
                           /\ get_value(storage[probe.key]).ok
                           /\ get_value(storage[probe.key]).value
                                  = ClaimedValue(Remainder)
    /\ ( /\ probe.kind = "recovery"
         /\ probe.script[2] \in { S_SET, S_SET \o SP \o << "a" >> }
         /\ Len(outbox[Client]) >= 2 )
          => outbox[Client][2] = R_INVALID /\ Stored_a_1

\* SET k a<tab>a without quotes is done and the Store holds a a
C18_Witness ==
    /\ probe.kind = "roundtrip"
    /\ ~probe.quoted
    /\ probe.value = << "a", "\t", "a" >>
    /\ pc[Client] = "Responding"
    /\ cmd[Client].kind = "Set"
    /\ get_value(storage[probe.key]).value = << "a", " ", "a" >>

(***************************************************************************)
(* C19  One log event for each parsed command, before it is executed       *)
(***************************************************************************)
\* the event the logging contract names for a command
ClaimedEvent(command) ==
    [ event |-> IF command.kind = "Set" THEN "SET"
                ELSE IF command.kind = "Get" THEN "GET"
                ELSE IF command.kind = "Delete" THEN "DEL"
                ELSE "KEYS",
      key |-> command.key,
      value |-> command.value ]

IsCommandEvent(e) == e.event \in { "SET", "GET", "DEL", "KEYS" }

\* C19: when a connection takes a line that parses, it has emitted exactly
\* one event, naming the kind, the key and (for SET) the value of the
\* command, by the time it asks for the Store; nothing more is logged while
\* the command waits for the Store, runs and is answered; when it takes a
\* line that does not parse it emits no command event and neither asks for
\* nor holds the Store.
C19_CommandLogged ==
    [][ \A c \in Conns :
          /\ (c \in Range(waiters') \/ Holds(c)')
                => logged'[c] = << ClaimedEvent(cmd'[c]) >>
          /\ (Reads(c) /\ pc'[c] = "Waiting")
                => /\ logged[c] = << >>
                   /\ logged'[c]
                          = << ClaimedEvent(CmdOf(parse(trim(Head(inbox[c]))))) >>
          /\ (Reads(c) /\ pc'[c] = "Responding")
                => /\ ~parse(trim(Head(inbox[c]))).ok
                   /\ \A i \in 1..Len(logged'[c]) : ~IsCommandEvent(logged'[c][i])
                   /\ ~Holds(c)'
                   /\ c \notin Range(waiters')
                   /\ storage' = storage
          /\ ( /\ pc[c] \in { "Waiting", "Holding", "Responding" }
               /\ pc'[c] \in { "Holding", "Responding" } )
                => logged'[c] = logged[c]
          /\ (pc'[c] = "Responding" /\ cmd'[c] = NoCmd)
                => /\ \A i \in 1..Len(logged'[c]) : ~IsCommandEvent(logged'[c][i])
                   /\ pc[c] \in { "Reading", "Responding" } ]_vars

\* SET k "a a" holds the Store, with the one event SET k, a a emitted
C19_Witness ==
    /\ probe.kind = "roundtrip"
    /\ probe.quoted
    /\ probe.value = << "a", " ", "a" >>
    /\ pc[Client] = "Holding"
    /\ logged[Client]
           = << [ event |-> "SET", key |-> probe.key, value |-> probe.value ] >>

(***************************************************************************)
(* C20  The rule a rejected key breaks                                     *)
(***************************************************************************)
\* the rules a key breaks, each named by the report of validate_key for it
BrokenRules(s) ==
    { r \in { "Key cannot be empty", "Key cannot contain spaces",
              "Key contains invalid character", "Key cannot start or end with",
              "Key cannot have consecutive hyphens or underscores" } :
        \/ r = "Key cannot be empty" /\ s = << >>
        \/ r = "Key cannot contain spaces" /\ contains(s, " ")
        \/ /\ r = "Key contains invalid character"
           /\ \E i \in 1..Len(s) :
                 ~is_ascii_alphanumeric(s[i]) /\ ~IsSep(s[i]) /\ s[i] # " "
        \/ /\ r = "Key cannot start or end with"
           /\ s # << >>
           /\ IsSep(s[1]) \/ IsSep(s[Len(s)])
        \/ /\ r = "Key cannot have consecutive hyphens or underscores"
           /\ \E i \in 1..(Len(s) - 1) : IsSep(s[i]) /\ IsSep(s[i + 1]) }

\* C20: when a command is rejected for a key that breaks one rule, the
\* error validate_key returned names that rule: empty, contains whitespace,
\* invalid character, hyphen or underscore at an edge, or two adjacent
\* hyphens or underscores.
C20_RuleReported ==
    ( /\ probe.kind = "key"
      /\ probe.word = S_GET
      /\ pc[Client] = "Responding"
      /\ cmd[Client] = NoCmd
      /\ Cardinality(BrokenRules(trim(probe.key))) = 1 )
        => validate_key(trim(probe.key)).err \in BrokenRules(trim(probe.key))

(***************************************************************************)
(* C21  Closed is terminal                                                 *)
(***************************************************************************)
\* the step in which connection c's read_line returns
ReadReturns(c) ==
    pc[c] = "Reading" /\ inbox[c] # << >> /\ Len(inbox'[c]) < Len(inbox[c])

\* C21: a read that returns the end of the stream or an error closes the
\* connection and writes nothing; a connection in Responding leaves it either
\* to Reading, with its response written, or, when the write fails, to
\* Closed with nothing written; a connection is closed only from Reading or
\* Responding; and a closed connection stays closed, takes nothing from its
\* socket, writes nothing, and neither waits for nor holds the Store.
C21_ClosedIsTerminal ==
    [][ \A c \in Conns :
          /\ ( /\ ReadReturns(c)
               /\ \/ Head(inbox[c]) \in { EOF, ERR }
                  \/ ~is_valid_utf8(Head(inbox[c])) )
                => /\ pc'[c] = "Closed"
                   /\ outbox'[c] = outbox[c]
                   /\ storage' = storage
          /\ (pc[c] = "Responding" /\ pc'[c] # "Responding")
                => \/ /\ pc'[c] = "Reading"
                      /\ outbox'[c] = Append(outbox[c], response[c])
                   \/ /\ pc'[c] = "Closed"
                      /\ outbox'[c] = outbox[c]
                      /\ ERR \in Range(inbox[c])
          /\ (pc[c] = "Responding" /\ outbox'[c] = Append(outbox[c], response[c]))
                => pc'[c] = "Reading"
          /\ pc'[c] = "Closed" => pc[c] \in { "Reading", "Responding", "Closed" }
          /\ pc[c] = "Closed"
                => /\ pc'[c] = "Closed"
                   /\ inbox'[c] = inbox[c]
                   /\ \/ outbox'[c] = outbox[c]
                      \/ outbox[c] # << >> /\ outbox'[c] = Tail(outbox[c])
                   /\ line'[c] = line[c]
                   /\ cmd'[c] = cmd[c]
                   /\ response'[c] = response[c]
                   /\ logged'[c] = logged[c]
                   /\ ~Holds(c) /\ ~Holds(c)'
                   /\ c \notin Range(waiters) /\ c \notin Range(waiters') ]_vars

\* a connection is closed with its one response OK written before the end of
\* the stream was read, while the other connection runs a Store operation
C21_Witness ==
    \E c, d \in Conns :
        /\ pc[c] = "Closed"
        /\ outbox[c] = << R_OK >>
        /\ pc[d] = "Holding"
        /\ << "a" >> \in DOMAIN storage

(***************************************************************************)
(* C22  No stored value holds a line feed                                  *)
(***************************************************************************)
\* C22: whatever bytes a client sends, line feeds inside the value of a SET
\* included, no value in the Store holds a line feed, every entry decodes,
\* the value of a SET is made of characters of the one line it was read
\* from, and every response, a GET hit included, is a single line.
C22_NoLineFeedStored ==
    /\ \A k \in DOMAIN storage :
          /\ get_value(storage[k]).ok
          /\ ~contains(get_value(storage[k]).value, "\n")
    /\ \A c \in Conns :
          /\ ~contains(response[c], "\n")
          /\ \A i \in 1..Len(outbox[c]) : ~contains(outbox[c][i], "\n")
          /\ cmd[c].kind = "Set"
                => /\ ~contains(cmd[c].value, "\n")
                   /\ Range(cmd[c].value) \subseteq Range(line[c])
                   /\ Len(cmd[c].value) < Len(line[c])
          /\ \A i \in 1..(Len(line[c]) - 1) : line[c][i] # "\n"

\* the bytes SET a "a<LF>a"<LF> were read as two lines: the Store holds "a
\* under a, the second line was rejected, and GET a was answered "a
C22_Witness ==
    /\ probe.kind = "stream"
    /\ probe.value = << "\"", "a", "\n", "a", "\"" >>
    /\ pc[Client] = "Reading"
    /\ outbox[Client] = << R_OK, R_INVALID, << "\"", "a" >> >>
    /\ get_value(storage[<< "a" >>]).value = << "\"", "a" >>

(***************************************************************************)
(* C23  Every stored key passed key validation                             *)
(***************************************************************************)
\* C23: every key the Store holds passes key validation (not empty, only
\* ASCII letters, digits, hyphens and underscores, no hyphen or underscore
\* at an edge, no white space); a key enters the Store only by the SET of
\* the connection holding exclusive access, whose line named that key and
\* passed validation; and a KEYS reply on a Store that is not empty splits
\* at white space into the stored keys, each once.
C23_StoredKeysValid ==
    [][ /\ \A k \in DOMAIN storage' :
              /\ validate_key(k).ok
              /\ KeyRule(k)
              /\ \A i \in 1..Len(k) : ~is_whitespace(k[i])
        /\ \A k \in DOMAIN storage' \ DOMAIN storage :
              \E c \in Conns :
                  /\ Returns(c, "Set")
                  /\ writer = c
                  /\ cmd[c].key = k
                  /\ parse(line[c]).kind = "Set"
                  /\ parse(line[c]).key = k
        /\ \A c \in Conns :
              (Returns(c, "Keys") /\ DOMAIN storage # {})
                  => /\ split_whitespace(response'[c]) \in Orders(DOMAIN storage)
                     /\ response'[c]
                            = join(split_whitespace(response'[c]), SP) ]_vars

\* after SET a-1 v and SET k-1 v the reply to KEYS names a-1 and k-1
C23_Witness ==
    /\ probe.kind = "store"
    /\ probe.key = << "a", "-", "1" >>
    /\ pc[Client] = "Responding"
    /\ cmd[Client].kind = "Keys"
    /\ DOMAIN storage = { << "a", "-", "1" >>, K_k1 }
    /\ Range(split_whitespace(response[Client])) = DOMAIN storage
=============================================================================
